---- MODULE Spec2Model ----
(***************************************************************************)
(* A model of the character component of the Mana server                   *)
(* (src/src/game-server/character.cpp): the transaction guard, the         *)
(* respawn / disconnect life cycle and the attribute point economy.        *)
(*                                                                         *)
(* Every member function is an operator from a character record to a       *)
(* character record, so that the calls a function makes (setTrading ->     *)
(* cancelTransaction -> the handler's cancel hook -> ...) are composed     *)
(* exactly as in the code.  Everything the component hands to its          *)
(* collaborators during one call (hooks fired, script callbacks run,       *)
(* messages sent, warps enqueued, log lines) is appended to the field      *)
(* "out", which is emptied at the start of every call.                     *)
(***************************************************************************)
EXTENDS Integers, Sequences, FiniteSets, TLC

\* ------------------------------------------------------------------ bounds
\* largest spendable / correction point balance a character is loaded with
MaxPoints == 2
\* largest base value a directly modifiable attribute is loaded with
MaxBase == 2
\* how deep a cancel hook may call back into the character
MaxReentry == 2
\* how many warps may wait in the delayed-event queue
MaxWarps == 1

\* --------------------------------------------------------------- constants
NULL == "nullptr"
TRANS_NONE == "TRANS_NONE"
TRANS_TRADE == "TRANS_TRADE"
TRANS_BUYSELL == "TRANS_BUYSELL"

DEAD == "DEAD"
STAND == "STAND"
SIT == "SIT"
Actions == {STAND, SIT, DEAD}

ATTRIBMOD_OK == "ATTRIBMOD_OK"
ATTRIBMOD_INVALID_ATTRIBUTE == "ATTRIBMOD_INVALID_ATTRIBUTE"
ATTRIBMOD_NO_POINTS_LEFT == "ATTRIBMOD_NO_POINTS_LEFT"
ATTRIBMOD_DENIED == "ATTRIBMOD_DENIED"

\* the Trade and BuySell objects that may be handed to the character
TradeHandlers == {"trade1", "trade2"}
BuySellHandlers == {"buysell1", "buysell2"}

\* what a handler's cancel() does to the character it is cancelled on:
\* nothing, or a call back into cancelTransaction / setTrading(nullptr) /
\* setBuySell(nullptr)
HookBehaviours == {"none", "cancelTransaction", "setTrading", "setBuySell"}

\* attribute ids: hit points and maximum hit points
ATTR_HP == 13
ATTR_MAX_HP == 14
\* the attributes the attribute manager declares directly modifiable (two
\* core stats)
ModifiableAttributes == {1, 3}
\* the attributes of the character scope
Attributes == ModifiableAttributes \cup {ATTR_HP, ATTR_MAX_HP}
\* the ids a client may name: the attributes and an id nothing is declared under
AttributeIds == Attributes \cup {99}

\* defaults of Configuration::getValue in respawn
DefaultRespawnMap == 1
DefaultRespawnX == 1024
DefaultRespawnY == 1024
\* an overriding configuration, and no configuration
NoConfig == [set |-> FALSE, map |-> 0, x |-> 0, y |-> 0]
SomeConfig == [set |-> TRUE, map |-> 3, x |-> 64, y |-> 96]
\* where a character is before any warp
StartPos == [map |-> 2, x |-> 32, y |-> 32]

\* --------------------------------------------------------------- variables
VARIABLES
  mTransaction,                \* TransactionType tag
  mTransactionHandler,         \* void *: the Trade or BuySell object
  mConnected,
  mAttributePoints,
  mCorrectionPoints,
  mSendAttributePointsStatus,
  mModifiedAttributes,         \* std::set of dirty attribute ids
  action,                      \* BeingComponent action state
  attrBase,                    \* attribute id -> base value
  attrMod,                     \* attribute id -> sum of the modifiers
  removed,                     \* GameState::remove was called on the entity
  warps,                       \* GameState's queue of enqueued warps
  pos,                         \* map and position of the entity
  aborted,                     \* an assert() failed and ended the process
  out,                         \* what the last call handed to collaborators
  call,                        \* the last call and its arguments
  ret,                         \* the value the last call returned
  ndebug,                      \* built with NDEBUG: assert() compiles to nothing
  mDeathCallback,              \* static Script::Ref: is it valid
  mDeathAcceptedCallback,      \* static Script::Ref: is it valid
  config,                      \* the char_respawn* configuration values
  mModifiedAbilities,          \* std::set of dirty ability ids
  mSendAbilityCooldown,
  abilities,                   \* the ids in the AbilityComponent's table
  mNpcThread,                  \* the suspended Script::Thread, or null
  mTalkNpcId,
  currentThread,               \* the thread the script engine is running
  permissions,                 \* static map: permission name -> class mask
  permissionFile,              \* static std::string
  hooksFired                   \* cancel() hooks dispatched since the last adoption

vars == <<mTransaction, mTransactionHandler, mConnected, mAttributePoints, mCorrectionPoints, mSendAttributePointsStatus, mModifiedAttributes, action, attrBase, attrMod, removed, warps, pos, aborted, out, call, ret, ndebug, mDeathCallback, mDeathAcceptedCallback, config, mModifiedAbilities, mSendAbilityCooldown, abilities, mNpcThread, mTalkNpcId, currentThread, permissions, permissionFile, hooksFired>>

\* the character as a record, with an empty out: the state a call starts in
cur == [mTransaction |-> mTransaction, mTransactionHandler |-> mTransactionHandler, mConnected |-> mConnected, mAttributePoints |-> mAttributePoints, mCorrectionPoints |-> mCorrectionPoints, mSendAttributePointsStatus |-> mSendAttributePointsStatus, mModifiedAttributes |-> mModifiedAttributes, action |-> action, attrBase |-> attrBase, attrMod |-> attrMod, removed |-> removed, warps |-> warps, pos |-> pos, aborted |-> aborted, mModifiedAbilities |-> mModifiedAbilities, mSendAbilityCooldown |-> mSendAbilityCooldown, abilities |-> abilities, mNpcThread |-> mNpcThread, mTalkNpcId |-> mTalkNpcId, currentThread |-> currentThread, hooksFired |-> hooksFired, out |-> << >>]

\* the state a call ends in becomes the next state
Apply(s) ==
  /\ mTransaction' = s.mTransaction
  /\ mTransactionHandler' = s.mTransactionHandler
  /\ mConnected' = s.mConnected
  /\ mAttributePoints' = s.mAttributePoints
  /\ mCorrectionPoints' = s.mCorrectionPoints
  /\ mSendAttributePointsStatus' = s.mSendAttributePointsStatus
  /\ mModifiedAttributes' = s.mModifiedAttributes
  /\ action' = s.action
  /\ attrBase' = s.attrBase
  /\ attrMod' = s.attrMod
  /\ removed' = s.removed
  /\ warps' = s.warps
  /\ pos' = s.pos
  /\ aborted' = s.aborted
  /\ mModifiedAbilities' = s.mModifiedAbilities
  /\ mSendAbilityCooldown' = s.mSendAbilityCooldown
  /\ abilities' = s.abilities
  /\ mNpcThread' = s.mNpcThread
  /\ mTalkNpcId' = s.mTalkNpcId
  /\ currentThread' = s.currentThread
  /\ hooksFired' = s.hooksFired
  /\ out' = s.out
  /\ UNCHANGED <<ndebug, mDeathCallback, mDeathAcceptedCallback, config, permissions, permissionFile>>

Emit(s, e) == [s EXCEPT !.out = Append(@, e)]

\* the events of a sequence that carry the given tag
Events(seq, tag) == SelectSeq(seq, LAMBDA e : e[1] = tag)

\* ------------------------------------------------------ transaction guard
RECURSIVE cancelTransaction(_, _, _)
RECURSIVE setTrading(_, _, _, _)
RECURSIVE setBuySell(_, _, _, _)

\* Trade::cancel / BuySell::cancel on handler h, reached through a cast to
\* kind: the hook fires, and may call back into the character (hk) while
\* depth d allows; hooksFired counts the dispatch
cancel(s, kind, h, hk, d) ==
  LET s1 == Emit([s EXCEPT !.hooksFired = @ + 1], <<"cancel", kind, h>>)
      s2 == Emit(s1, <<"reenter", hk>>)
  IN IF d = 0 \/ hk = "none" THEN s1
     ELSE IF hk = "cancelTransaction" THEN cancelTransaction(s2, hk, d - 1)
     ELSE IF hk = "setTrading" THEN setTrading(s2, NULL, hk, d - 1)
     ELSE setBuySell(s2, NULL, hk, d - 1)

\* a plausible bug: the tag is reset only after the hook was dispatched
cancelTransaction_late(s, hk, d) ==
  LET t == s.mTransaction
      s1 == CASE t = TRANS_TRADE -> cancel(s, "Trade", s.mTransactionHandler, hk, d)
              [] t = TRANS_BUYSELL -> cancel(s, "BuySell", s.mTransactionHandler, hk, d)
              [] OTHER -> s
  IN [s1 EXCEPT !.mTransaction = TRANS_NONE]

\* a plausible bug: only trades are cancelled
cancelTransaction_tradeonly(s, hk, d) ==
  LET t == s.mTransaction
      s1 == [s EXCEPT !.mTransaction = TRANS_NONE]
  IN CASE t = TRANS_TRADE -> cancel(s1, "Trade", s.mTransactionHandler, hk, d)
       [] OTHER -> s1

cancelTransaction(s, hk, d) ==
  LET t == s.mTransaction
      s1 == [s EXCEPT !.mTransaction = TRANS_NONE]
  IN CASE t = TRANS_TRADE -> cancel(s1, "Trade", s1.mTransactionHandler, hk, d)
       [] t = TRANS_BUYSELL -> cancel(s1, "BuySell", s1.mTransactionHandler, hk, d)
       [] OTHER -> s1

getTrading(s) == IF s.mTransaction = TRANS_TRADE THEN s.mTransactionHandler ELSE NULL

getBuySell(s) == IF s.mTransaction = TRANS_BUYSELL THEN s.mTransactionHandler ELSE NULL

\* assert(cond): with assertions compiled in, a false condition ends the
\* process; with NDEBUG the statement is empty
assertFails(cond) == ~cond /\ ~ndebug

\* a plausible bug: the tag is set but the handler is not stored
setTrading_nostore(s, t, hk, d) ==
  IF t # NULL
  THEN LET s1 == cancelTransaction(s, hk, d)
       IN Emit([s1 EXCEPT !.mTransaction = TRANS_TRADE, !.hooksFired = 0], <<"adopt", TRANS_TRADE, t>>)
  ELSE [s EXCEPT !.mTransaction = TRANS_NONE]

setTrading(s, t, hk, d) ==
  IF t # NULL
  THEN LET s1 == cancelTransaction(s, hk, d)
       IN IF s1.aborted THEN s1
          ELSE Emit([s1 EXCEPT !.mTransactionHandler = t, !.mTransaction = TRANS_TRADE, !.hooksFired = 0], <<"adopt", TRANS_TRADE, t>>)
  ELSE IF assertFails(s.mTransaction = TRANS_NONE \/ s.mTransaction = TRANS_TRADE)
       THEN [s EXCEPT !.aborted = TRUE]
       ELSE [s EXCEPT !.mTransaction = TRANS_NONE]

\* a plausible bug: the new shop is adopted without cancelling what is active
setBuySell_nocancel(s, t, hk, d) ==
  IF t # NULL
  THEN Emit([s EXCEPT !.mTransactionHandler = t, !.mTransaction = TRANS_BUYSELL, !.hooksFired = 0], <<"adopt", TRANS_BUYSELL, t>>)
  ELSE [s EXCEPT !.mTransaction = TRANS_NONE]

setBuySell(s, t, hk, d) ==
  IF t # NULL
  THEN LET s1 == cancelTransaction(s, hk, d)
       IN IF s1.aborted THEN s1
          ELSE Emit([s1 EXCEPT !.mTransactionHandler = t, !.mTransaction = TRANS_BUYSELL, !.hooksFired = 0], <<"adopt", TRANS_BUYSELL, t>>)
  ELSE IF assertFails(s.mTransaction = TRANS_NONE \/ s.mTransaction = TRANS_BUYSELL)
       THEN [s EXCEPT !.aborted = TRUE]
       ELSE [s EXCEPT !.mTransaction = TRANS_NONE]

\* ------------------------------------------------------------ attributes
getAttributeBase(s, attr) == s.attrBase[attr]

getModifiedAttribute(s, attr) == s.attrBase[attr] + s.attrMod[attr]

\* a plausible bug: the change is forwarded but the id is not marked dirty
attributeChanged_nomark(s, attr) ==
  Emit(s, <<"updateAttributes", attr, getAttributeBase(s, attr), getModifiedAttribute(s, attr)>>)

\* the handler of signal_attribute_changed
attributeChanged(s, attr) ==
  LET s1 == Emit(s, <<"updateAttributes", attr, getAttributeBase(s, attr), getModifiedAttribute(s, attr)>>)
  IN [s1 EXCEPT !.mModifiedAttributes = @ \cup {attr}]

\* BeingComponent::setAttribute: stores the base and raises
\* signal_attribute_changed
setAttribute(s, attr, value) == attributeChanged([s EXCEPT !.attrBase[attr] = value], attr)

\* BeingComponent::updateDerivedAttributes: the recomputation is requested
updateDerivedAttributes(s, attr) == Emit(s, <<"updateDerivedAttributes", attr>>)

isAttributeDirectlyModifiable(attr) == attr \in ModifiableAttributes

setAttributePoints(s, points) == [s EXCEPT !.mAttributePoints = points, !.mSendAttributePointsStatus = TRUE]

setCorrectionPoints(s, points) == [s EXCEPT !.mCorrectionPoints = points, !.mSendAttributePointsStatus = TRUE]

\* BeingComponent::recalculateBaseAttribute: the recomputation is requested
recalculateBaseAttribute(s, attr) == Emit(s, <<"recalculateBaseAttribute", attr>>)

RECURSIVE markAttributes(_, _)
\* the loop of modifiedAllAttributes over the attributes of the being, a
\* std::map visited in ascending order of the ids
markAttributes(s, ids) ==
  IF ids = << >> THEN s
  ELSE LET s1 == recalculateBaseAttribute(s, Head(ids))
       IN markAttributes([s1 EXCEPT !.mModifiedAttributes = @ \cup {Head(ids)}], Tail(ids))

\* ----------------------------------------------------------- point economy
\* a function's result: the state it leaves and the value it returns
Result(s, r) == [s |-> s, ret |-> r]

\* a plausible bug: the modifiable check is made after the point is taken
useCharacterPoint_latecheck(s, attribute) ==
  IF s.mAttributePoints = 0 THEN Result(s, ATTRIBMOD_NO_POINTS_LEFT)
  ELSE LET s1 == setAttributePoints(s, s.mAttributePoints - 1)
       IN IF ~isAttributeDirectlyModifiable(attribute) THEN Result(s1, ATTRIBMOD_INVALID_ATTRIBUTE)
          ELSE Result(updateDerivedAttributes(setAttribute(s1, attribute, getAttributeBase(s1, attribute) + 1), attribute), ATTRIBMOD_OK)

\* a plausible bug: the derived attributes are not recomputed
useCharacterPoint_noderived(s, attribute) ==
  IF ~isAttributeDirectlyModifiable(attribute) THEN Result(s, ATTRIBMOD_INVALID_ATTRIBUTE)
  ELSE IF s.mAttributePoints = 0 THEN Result(s, ATTRIBMOD_NO_POINTS_LEFT)
  ELSE LET s1 == setAttributePoints(s, s.mAttributePoints - 1)
       IN Result(setAttribute(s1, attribute, getAttributeBase(s1, attribute) + 1), ATTRIBMOD_OK)

useCharacterPoint(s, attribute) ==
  IF ~isAttributeDirectlyModifiable(attribute) THEN Result(s, ATTRIBMOD_INVALID_ATTRIBUTE)
  ELSE IF s.mAttributePoints = 0 THEN Result(s, ATTRIBMOD_NO_POINTS_LEFT)
  ELSE LET s1 == setAttributePoints(s, s.mAttributePoints - 1)
           base == getAttributeBase(s1, attribute)
           s2 == setAttribute(s1, attribute, base + 1)
           s3 == updateDerivedAttributes(s2, attribute)
       IN Result(s3, ATTRIBMOD_OK)

\* a plausible bug: the base is compared with 0 instead of 1
useCorrectionPoint_zero(s, attribute) ==
  IF ~isAttributeDirectlyModifiable(attribute) THEN Result(s, ATTRIBMOD_INVALID_ATTRIBUTE)
  ELSE IF s.mCorrectionPoints = 0 THEN Result(s, ATTRIBMOD_NO_POINTS_LEFT)
  ELSE IF getAttributeBase(s, attribute) <= 0 THEN Result(s, ATTRIBMOD_DENIED)
  ELSE LET s1 == setAttributePoints(setCorrectionPoints(s, s.mCorrectionPoints - 1), s.mAttributePoints + 1)
       IN Result(setAttribute(s1, attribute, getAttributeBase(s1, attribute) - 1), ATTRIBMOD_OK)

\* a plausible bug: the spent correction point is not refunded
useCorrectionPoint_norefund(s, attribute) ==
  IF ~isAttributeDirectlyModifiable(attribute) THEN Result(s, ATTRIBMOD_INVALID_ATTRIBUTE)
  ELSE IF s.mCorrectionPoints = 0 THEN Result(s, ATTRIBMOD_NO_POINTS_LEFT)
  ELSE IF getAttributeBase(s, attribute) <= 1 THEN Result(s, ATTRIBMOD_DENIED)
  ELSE LET s1 == setCorrectionPoints(s, s.mCorrectionPoints - 1)
       IN Result(setAttribute(s1, attribute, getAttributeBase(s1, attribute) - 1), ATTRIBMOD_OK)

useCorrectionPoint(s, attribute) ==
  IF ~isAttributeDirectlyModifiable(attribute) THEN Result(s, ATTRIBMOD_INVALID_ATTRIBUTE)
  ELSE IF s.mCorrectionPoints = 0 THEN Result(s, ATTRIBMOD_NO_POINTS_LEFT)
  ELSE IF getAttributeBase(s, attribute) <= 1 THEN Result(s, ATTRIBMOD_DENIED)
  ELSE LET s1 == setCorrectionPoints(s, s.mCorrectionPoints - 1)
           s2 == setAttributePoints(s1, s1.mAttributePoints + 1)
           base == getAttributeBase(s2, attribute)
           s3 == setAttribute(s2, attribute, base - 1)
       IN Result(s3, ATTRIBMOD_OK)

\* ---------------------------------------------------------- synchronisation
\* the ability ids a character may hold
AbilityIds == {1, 2}

\* Timeout::remaining of an ability's recharge timer
rechargeRemaining(id) == 10 * id

\* AbilityComponent::globalCooldown
globalCooldown == 50

RECURSIVE Ascending(_)
\* the elements of a std::set in the order its iterator visits them
Ascending(S) ==
  IF S = {} THEN << >>
  ELSE LET m == CHOOSE x \in S : \A y \in S : x <= y
       IN <<m>> \o Ascending(S \ {m})

\* MessageOut(id): the message id (two bytes) and the fields written after
\* it, each with its width in bytes
MessageOut(id) == [id |-> id, fields |-> << >>]

writeInt8(msg, value) == [msg EXCEPT !.fields = Append(@, <<1, value % 256>>)]

writeInt16(msg, value) == [msg EXCEPT !.fields = Append(@, <<2, value % 65536>>)]

\* the values written as 32 bits all lie within the 32 bit range
writeInt32(msg, value) == [msg EXCEPT !.fields = Append(@, <<4, value>>)]

getLength(msg) ==
  LET w[i \in 0..Len(msg.fields)] == IF i = 0 THEN 2 ELSE w[i - 1] + msg.fields[i][1]
  IN w[Len(msg.fields)]

\* gameHandler->sendTo(mClient, msg)
sendTo(s, msg) == Emit(s, <<"sendTo", msg>>)

\* the messages of a given id among the events of a call
Sent(seq, id) == SelectSeq(seq, LAMBDA e : e[1] = "sendTo" /\ e[2].id = id)

abilityStatusChanged(s, id) == [s EXCEPT !.mModifiedAbilities = @ \cup {id}]

abilityCooldownActivated(s) == [s EXCEPT !.mSendAbilityCooldown = TRUE]

RECURSIVE writeAbilities(_, _, _)
\* the loop of sendAbilityUpdate over the dirty ids
writeAbilities(msg, ids, table) ==
  IF ids = << >> THEN msg
  ELSE LET id == Head(ids)
           m1 == IF id \notin table THEN msg ELSE writeInt32(writeInt8(msg, id), rechargeRemaining(id))
       IN writeAbilities(m1, Tail(ids), table)

sendAbilityUpdate(s) ==
  LET msg == writeAbilities(MessageOut("GPMSG_ABILITY_STATUS"), Ascending(s.mModifiedAbilities), s.abilities)
  IN sendTo([s EXCEPT !.mModifiedAbilities = {}], msg)

\* a plausible bug: the flag is left set after the message
sendAbilityCooldownUpdate_noclear(s) ==
  sendTo(s, writeInt16(MessageOut("GPMSG_ABILITY_COOLDOWN"), globalCooldown))

sendAbilityCooldownUpdate(s) ==
  LET msg == writeInt16(MessageOut("GPMSG_ABILITY_COOLDOWN"), globalCooldown)
  IN [sendTo(s, msg) EXCEPT !.mSendAbilityCooldown = FALSE]

sendAttributePointsStatus(s) ==
  LET msg == writeInt16(writeInt16(MessageOut("GPMSG_ATTRIBUTE_POINTS_STATUS"), s.mAttributePoints), s.mCorrectionPoints)
  IN [sendTo(s, msg) EXCEPT !.mSendAttributePointsStatus = FALSE]

\* a plausible bug: the dead character is synchronised like a living one
update_nodeadcheck(s) ==
  LET s1 == IF s.mModifiedAbilities # {} THEN sendAbilityUpdate(s) ELSE s
      s2 == IF s1.mSendAbilityCooldown THEN sendAbilityCooldownUpdate(s1) ELSE s1
  IN IF s2.mSendAttributePointsStatus THEN sendAttributePointsStatus(s2) ELSE s2

update(s) ==
  IF s.action = DEAD THEN s
  ELSE LET s1 == IF s.mModifiedAbilities # {} THEN sendAbilityUpdate(s) ELSE s
           s2 == IF s1.mSendAbilityCooldown THEN sendAbilityCooldownUpdate(s1) ELSE s1
           s3 == IF s2.mSendAttributePointsStatus THEN sendAttributePointsStatus(s2) ELSE s2
       IN s3

RECURSIVE writeAttributes(_, _, _)
\* the loop of sendStatus over the dirty ids
writeAttributes(msg, ids, s) ==
  IF ids = << >> THEN msg
  ELSE LET attr == Head(ids)
           m1 == writeInt16(msg, attr)
           m2 == writeInt32(m1, getAttributeBase(s, attr) * 256)
           m3 == writeInt32(m2, getModifiedAttribute(s, attr) * 256)
       IN writeAttributes(m3, Tail(ids), s)

sendStatus(s) ==
  LET attribMsg == writeAttributes(MessageOut("GPMSG_PLAYER_ATTRIBUTE_CHANGE"), Ascending(s.mModifiedAttributes), s)
      s1 == IF getLength(attribMsg) > 2 THEN sendTo(s, attribMsg) ELSE s
  IN [s1 EXCEPT !.mModifiedAttributes = {}]

\* -------------------------------------------------------------- NPC dialogue
MaxNpcId == 3

\* script threads a caller may create
Threads == {"thread1", "thread2", "thread3"}

NpcIds == 1..MaxNpcId

\* resumeNpcThread: done is what Script::resume reports for the script's
\* current thread, TRUE when the script ran to its end
resumeNpcThread(s, done) ==
  IF assertFails(s.currentThread = s.mNpcThread) THEN [s EXCEPT !.aborted = TRUE]
  ELSE LET s1 == Emit(s, <<"resume", s.currentThread>>)
       IN IF done
          THEN LET msg == writeInt16(MessageOut("GPMSG_NPC_CLOSE"), s1.mTalkNpcId)
               IN [sendTo(s1, msg) EXCEPT !.mTalkNpcId = 0, !.mNpcThread = NULL]
          ELSE s1

\* a plausible bug: the previous thread is dropped without being destroyed
startNpcThread_nodelete(s, thread, npcId, done) ==
  resumeNpcThread([s EXCEPT !.mNpcThread = thread, !.mTalkNpcId = npcId], done)

startNpcThread(s, thread, npcId, done) ==
  LET s1 == IF s.mNpcThread # NULL THEN Emit(s, <<"delete", s.mNpcThread>>) ELSE s
      s2 == [s1 EXCEPT !.mNpcThread = thread, !.mTalkNpcId = npcId]
  IN resumeNpcThread(s2, done)

\* --------------------------------------------------------- permission table
MaxNodes == 2

PMR_ALLOWED == "PMR_ALLOWED"

PMR_DENIED == "PMR_DENIED"

PMR_UNKNOWN == "PMR_UNKNOWN"

\* ResourceManager::loadFile found nothing
Missing == [kind |-> "missing", root |-> NULL, children |-> << >>]

\* xmlParseMemory returned no document
Unparsable == [kind |-> "unparsable", root |-> NULL, children |-> << >>]

\* a child element of a class element that has children of its own: content
\* is the content of its first child, the text of a text node and null for
\* any other node
PerNode(name, content) == [name |-> name, hasChild |-> TRUE, content |-> content]

\* a child element of a class element without children (<allow/>)
Childless(name) == [name |-> name, hasChild |-> FALSE, content |-> NULL]

\* what a build makes of a read through a null pointer whose value is never
\* used: the read faults, or it is optimised away
Faults == {"crash", "elided"}

\* a child of the root element; a level attribute that is absent reads as 0
Node(name, level, children) == [name |-> name, level |-> level, children |-> children]

\* the children of the root element the database files are made of
Nodes ==
  { Node("class", 1, << PerNode("allow", "a"), PerNode("deny", "b") >>),
    Node("class", 2, << PerNode("allow", "b") >>),
    Node("class", 8, << PerNode("alias", "b"), PerNode("allow", "a"), PerNode("allow", NULL) >>),
    Node("class", 0, << PerNode("allow", "a"), Childless("allow") >>),
    Node("class", 2, << Childless("deny"), PerNode("allow", "a"), Childless("allow"), PerNode("allow", "b") >>),
    Node("class", 9, << PerNode("allow", "b") >>),
    Node("group", 1, << PerNode("allow", "b") >>) }

NodeLists == UNION {[1..n -> Nodes] : n \in 0..MaxNodes}

\* what a permission file may hold when it is read
Contents ==
  {Missing, Unparsable}
    \cup {[kind |-> "document", root |-> "permissions", children |-> c] : c \in NodeLists}
    \cup {[kind |-> "document", root |-> "accounts", children |-> <<n>>] : n \in Nodes}
    \cup {[kind |-> "document", root |-> NULL, children |-> << >>]}

PermissionFiles == {"permissions.xml"}

PermissionNames == {"a", "b", "c"}

\* account levels of the characters asking
AccountLevels == {0, 1, 2, 3, 128, 130, 256}

RECURSIVE BitOr(_, _)
\* a | b
BitOr(a, b) ==
  IF a = 0 THEN b
  ELSE IF b = 0 THEN a
  ELSE (IF a % 2 = 1 \/ b % 2 = 1 THEN 1 ELSE 0) + 2 * BitOr(a \div 2, b \div 2)

RECURSIVE BitAnd(_, _)
\* a & b
BitAnd(a, b) ==
  IF a = 0 \/ b = 0 THEN 0
  ELSE (IF a % 2 = 1 /\ b % 2 = 1 THEN 1 ELSE 0) + 2 * BitAnd(a \div 2, b \div 2)

\* the static state of the permission manager, with the log of a call
pm == [permissions |-> permissions, permissionFile |-> permissionFile, aborted |-> aborted, out |-> << >>]

\* the mask is stored as an unsigned char
addPermission(s, permission, mask) ==
  IF permission \notin DOMAIN s.permissions
  THEN [s EXCEPT !.permissions = [n \in DOMAIN s.permissions \cup {permission} |-> IF n = permission THEN mask % 256 ELSE s.permissions[n]]]
  ELSE [s EXCEPT !.permissions[permission] = BitOr(@, mask % 256)]

\* perNode->xmlChildrenNode->content of an element without children is a
\* read through a null pointer: the process ends with SIGSEGV, unless the
\* value is never used (deny, alias) and the build has dropped the read
nullRead(perNode, fault) ==
  /\ perNode.name \in {"allow", "deny", "alias"}
  /\ ~perNode.hasChild
  /\ perNode.name = "allow" \/ fault = "crash"

RECURSIVE loadClass(_, _, _, _)
\* the loop over the children of one class element
loadClass(s, perNodes, classmask, fault) ==
  IF perNodes = << >> THEN s
  ELSE LET perNode == Head(perNodes)
       IN IF nullRead(perNode, fault) THEN Emit([s EXCEPT !.aborted = TRUE], <<"SIGSEGV">>)
          ELSE IF perNode.name = "allow" /\ perNode.content # NULL /\ perNode.content # ""
               THEN loadClass(addPermission(s, perNode.content, classmask), Tail(perNodes), classmask, fault)
               ELSE loadClass(s, Tail(perNodes), classmask, fault)

RECURSIVE loadClasses(_, _, _)
\* the loop of reload over the children of the root element; nothing more
\* is done once the process has ended
loadClasses(s, nodes, fault) ==
  IF nodes = << >> \/ s.aborted THEN s
  ELSE LET node == Head(nodes)
       IN IF node.name # "class" THEN loadClasses(s, Tail(nodes), fault)
          ELSE IF node.level < 1 \/ node.level > 8
               THEN loadClasses(Emit(s, <<"LOG_WARN", node.level>>), Tail(nodes), fault)
               ELSE loadClasses(loadClass(s, node.children, (1 * 2 ^ (node.level - 1)) % 256, fault), Tail(nodes), fault)

\* a plausible bug: the table is emptied before the file is looked at
reload_clearfirst(s, content, fault) ==
  IF content = Missing THEN Emit([s EXCEPT !.permissions = [n \in {} |-> 0]], <<"LOG_ERROR", "Could not find">>)
  ELSE IF content = Unparsable THEN Emit([s EXCEPT !.permissions = [n \in {} |-> 0]], <<"LOG_ERROR", "Error while parsing">>)
  ELSE IF content.root # "permissions" THEN Emit([s EXCEPT !.permissions = [n \in {} |-> 0]], <<"LOG_ERROR", "not a valid database file">>)
  ELSE loadClasses([s EXCEPT !.permissions = [n \in {} |-> 0]], content.children, fault)

\* reload: content is what loadFile and xmlParseMemory yield for
\* permissionFile at the time of the call
reload(s, content, fault) ==
  IF content = Missing THEN Emit(s, <<"LOG_ERROR", "Could not find">>)
  ELSE IF content = Unparsable THEN Emit(s, <<"LOG_ERROR", "Error while parsing">>)
  ELSE IF content.root # "permissions" THEN Emit(s, <<"LOG_ERROR", "not a valid database file">>)
  ELSE loadClasses(s, content.children, fault)

initialize(s, file, content, fault) == reload([s EXCEPT !.permissionFile = file], content, fault)

\* a plausible bug: a name that was never declared is denied
checkPermission_unknowndenied(s, level, permission) ==
  IF permission \notin DOMAIN s.permissions
  THEN Result(Emit(s, <<"LOG_WARN", permission>>), PMR_DENIED)
  ELSE IF BitAnd(level, s.permissions[permission]) # 0
       THEN Result(s, PMR_ALLOWED)
       ELSE Result(s, PMR_DENIED)

\* checkPermission: level is character->getAccountLevel()
checkPermission(s, level, permission) ==
  IF permission \notin DOMAIN s.permissions
  THEN Result(Emit(s, <<"LOG_WARN", permission>>), PMR_UNKNOWN)
  ELSE IF BitAnd(level, s.permissions[permission]) # 0
       THEN Result(s, PMR_ALLOWED)
       ELSE Result(s, PMR_DENIED)

\* modifiedAllAttributes: every attribute of the being is recalculated and
\* marked
modifiedAllAttributes(s) == markAttributes(s, Ascending(DOMAIN s.attrBase))

\* --------------------------------------------------------------- life cycle
\* executeCallback: a Script::Ref that is not valid is not run; a valid one
\* is prepared, given the entity and executed
executeCallback(s, function) ==
  IF ~function.valid THEN Result(s, FALSE)
  ELSE Result(Emit(s, <<"execute", function.name>>), TRUE)

\* the static Script::Ref members
DeathCallback == [name |-> "death", valid |-> mDeathCallback]
DeathAcceptedCallback == [name |-> "death_accepted", valid |-> mDeathAcceptedCallback]

\* Configuration::getValue(key, default) for the three char_respawn* keys
getValue(key, default) == IF config.set THEN config[key] ELSE default

\* BeingComponent::setAction
setAction(s, a) == Emit([s EXCEPT !.action = a], <<"setAction", a>>)

\* GameState::enqueueWarp: the warp is queued for the end of the tick
enqueueWarp(s, map, x, y) ==
  Emit([s EXCEPT !.warps = Append(@, [map |-> map, x |-> x, y |-> y])], <<"enqueueWarp", map, x, y>>)

\* GameState::remove: the entity leaves the live world, and a character
\* that leaves has its transaction cancelled
remove(s, hk) == Emit([cancelTransaction(s, hk, MaxReentry) EXCEPT !.removed = TRUE], <<"remove">>)

characterDied(s) == executeCallback(s, DeathCallback).s

\* a plausible bug: the action state is not checked
respawn_nocheck(s) ==
  LET s1 == setAction(s, STAND)
      cb == executeCallback(s1, DeathAcceptedCallback)
  IN IF cb.ret THEN cb.s
     ELSE enqueueWarp(setAttribute(cb.s, ATTR_HP, getModifiedAttribute(cb.s, ATTR_MAX_HP)), getValue("map", DefaultRespawnMap), getValue("x", DefaultRespawnX), getValue("y", DefaultRespawnY))

\* a plausible bug: the hit points are reset to the base of max-HP, without
\* its modifiers
respawn_basehp(s) ==
  IF s.action # DEAD THEN Emit(s, <<"LOG_WARN", "tried to respawn without being dead">>)
  ELSE LET cb == executeCallback(setAction(s, STAND), DeathAcceptedCallback)
       IN IF cb.ret THEN cb.s
          ELSE enqueueWarp(setAttribute(cb.s, ATTR_HP, getAttributeBase(cb.s, ATTR_MAX_HP)), getValue("map", DefaultRespawnMap), getValue("x", DefaultRespawnX), getValue("y", DefaultRespawnY))

respawn(s) ==
  IF s.action # DEAD THEN Emit(s, <<"LOG_WARN", "tried to respawn without being dead">>)
  ELSE LET s1 == setAction(s, STAND)
           cb == executeCallback(s1, DeathAcceptedCallback)
       IN IF cb.ret THEN cb.s
          ELSE LET maxHp == getModifiedAttribute(cb.s, ATTR_MAX_HP)
                   s2 == setAttribute(cb.s, ATTR_HP, maxHp)
                   spawnMap == getValue("map", DefaultRespawnMap)
                   spawnX == getValue("x", DefaultRespawnX)
                   spawnY == getValue("y", DefaultRespawnY)
               IN enqueueWarp(s2, spawnMap, spawnX, spawnY)

\* a plausible bug: a dead character is removed like a living one
disconnected_norespawn(s, hk) ==
  Emit(remove([s EXCEPT !.mConnected = FALSE], hk), <<"signal_disconnected">>)

disconnected(s, hk) ==
  LET s1 == [s EXCEPT !.mConnected = FALSE]
      s2 == IF s1.action = DEAD THEN respawn(s1) ELSE remove(s1, hk)
  IN Emit(s2, <<"signal_disconnected">>)

\* BeingComponent::died: a being whose hit points are used up takes the
\* dead action state once and raises signal_died, which characterDied handles
died(s) ==
  IF s.action = DEAD THEN s
  ELSE characterDied(setAction(setAttribute(s, ATTR_HP, 0), DEAD))

\* GameState::update: the queued warps of the entity are carried out
processWarps(s) == [s EXCEPT !.pos = s.warps[Len(s.warps)], !.warps = << >>]

\* ------------------------------------------------------------------ actions
\* the entity is in the live world and the process runs
Live == ~removed /\ ~aborted

Call(op, arg) == [op |-> op, arg |-> arg]

\* a call that returns nothing
Does(s, op, arg) == Apply(s) /\ call' = Call(op, arg) /\ ret' = "void"

\* a call that returns a value
Returns(r, op, arg) == Apply(r.s) /\ call' = Call(op, arg) /\ ret' = r.ret

SetTrading ==
  /\ Live
  /\ \E t \in TradeHandlers \cup {NULL}, hk \in HookBehaviours : Does(setTrading(cur, t, hk, MaxReentry), "setTrading", t)

SetBuySell ==
  /\ Live
  /\ \E t \in BuySellHandlers \cup {NULL}, hk \in HookBehaviours : Does(setBuySell(cur, t, hk, MaxReentry), "setBuySell", t)

CancelTransaction ==
  /\ Live
  /\ \E hk \in HookBehaviours : Does(cancelTransaction(cur, hk, MaxReentry), "cancelTransaction", NULL)

Respawn ==
  /\ Live
  /\ action = DEAD => Len(warps) < MaxWarps
  /\ Does(respawn(cur), "respawn", NULL)

Disconnected ==
  /\ Live
  /\ mConnected
  /\ action = DEAD => Len(warps) < MaxWarps
  /\ \E hk \in HookBehaviours : Does(disconnected(cur, hk), "disconnected", NULL)

Died ==
  /\ Live
  /\ action # DEAD
  /\ Does(died(cur), "died", NULL)

SetAction ==
  /\ Live
  /\ action # DEAD
  /\ \E a \in {STAND, SIT} : a # action /\ Does(setAction(cur, a), "setAction", a)

ProcessWarps ==
  /\ Live
  /\ warps # << >>
  /\ Does(processWarps(cur), "processWarps", NULL)

\* a bulk change (an equipment swap) invalidates every attribute
ModifiedAllAttributes ==
  /\ Live
  /\ Does(modifiedAllAttributes(cur), "modifiedAllAttributes", NULL)

UseCharacterPoint ==
  /\ Live
  /\ \E attribute \in AttributeIds : Returns(useCharacterPoint(cur, attribute), "useCharacterPoint", attribute)

UseCorrectionPoint ==
  /\ Live
  /\ \E attribute \in AttributeIds : Returns(useCorrectionPoint(cur, attribute), "useCorrectionPoint", attribute)

Update ==
  /\ Live
  /\ Does(update(cur), "update", NULL)

SendStatus ==
  /\ Live
  /\ Does(sendStatus(cur), "sendStatus", NULL)

\* signal_ability_changed of the ability component
AbilityStatusChanged ==
  /\ Live
  /\ \E id \in AbilityIds : Does(abilityStatusChanged(cur, id), "abilityStatusChanged", id)

\* signal_global_cooldown_activated of the ability component
AbilityCooldownActivated ==
  /\ Live
  /\ Does(abilityCooldownActivated(cur), "abilityCooldownActivated", NULL)

\* a change of the hit points by the game (damage, healing)
SetAttribute ==
  /\ Live
  /\ \E value \in 1..MaxBase : Does(setAttribute(cur, ATTR_HP, value), "setAttribute", ATTR_HP)

\* a player starts talking to an NPC: the caller creates a thread with
\* Script::newThread, which makes it the script's current thread, and hands
\* it over
StartNpcThread ==
  /\ Live
  /\ \E thread \in Threads \ {mNpcThread}, npcId \in NpcIds, done \in BOOLEAN :
       Does(startNpcThread([cur EXCEPT !.currentThread = thread], thread, npcId, done),
            "startNpcThread", [thread |-> thread, npcId |-> npcId, done |-> done])

\* the player answers: the caller makes the stored thread the script's
\* current thread and resumes
ResumeNpcThread ==
  /\ Live
  /\ mNpcThread # NULL
  /\ \E done \in BOOLEAN :
       Does(resumeNpcThread([cur EXCEPT !.currentThread = mNpcThread], done),
            "resumeNpcThread", [thread |-> mNpcThread, npcId |-> mTalkNpcId, done |-> done])

\* a call of the permission manager: the character is not involved
ApplyPm(s) ==
  /\ permissions' = s.permissions
  /\ permissionFile' = s.permissionFile
  /\ aborted' = s.aborted
  /\ out' = s.out
  /\ UNCHANGED <<mTransaction, mTransactionHandler, mConnected, mAttributePoints, mCorrectionPoints, mSendAttributePointsStatus, mModifiedAttributes, action, attrBase, attrMod, removed, warps, pos, mModifiedAbilities, mSendAbilityCooldown, abilities, mNpcThread, mTalkNpcId, currentThread, hooksFired>>
  /\ UNCHANGED <<ndebug, mDeathCallback, mDeathAcceptedCallback, config>>

Initialize ==
  /\ ~aborted
  /\ \E file \in PermissionFiles, content \in Contents, fault \in Faults :
       /\ ApplyPm(initialize(pm, file, content, fault))
       /\ call' = Call("initialize", [file |-> file, content |-> content, fault |-> fault])
       /\ ret' = "void"

\* no file was named yet: loadFile finds nothing
Reload ==
  /\ ~aborted
  /\ \E content \in (IF permissionFile = "" THEN {Missing} ELSE Contents), fault \in Faults :
       /\ ApplyPm(reload(pm, content, fault))
       /\ call' = Call("reload", [file |-> permissionFile, content |-> content, fault |-> fault])
       /\ ret' = "void"

CheckPermission ==
  /\ ~aborted
  /\ \E level \in AccountLevels, permission \in PermissionNames :
       LET r == checkPermission(pm, level, permission)
       IN /\ ApplyPm(r.s)
          /\ call' = Call("checkPermission", [level |-> level, permission |-> permission])
          /\ ret' = r.ret

\* ----------------------------------------------------------- specifications
\* the permission table before anything is loaded
NoPermissions == [n \in {} |-> 0]

\* what the constructor leaves: the initializer list, then the point
\* balances of the creation message, which deserializeCharacterData sets
\* through setAttributePoints and setCorrectionPoints, then every attribute
\* marked by modifiedAllAttributes
Constructed ==
  /\ mTransaction = TRANS_NONE
  /\ mTransactionHandler = NULL
  /\ mConnected = TRUE
  /\ mSendAttributePointsStatus = TRUE
  /\ mAttributePoints \in 0..MaxPoints
  /\ mCorrectionPoints \in 0..MaxPoints
  /\ mModifiedAttributes = Attributes
  /\ action = STAND
  /\ removed = FALSE
  /\ warps = << >>
  /\ pos = StartPos
  /\ aborted = FALSE
  /\ out = [i \in 1..Cardinality(Attributes) |-> <<"recalculateBaseAttribute", Ascending(Attributes)[i]>>]
  /\ call = Call("CharacterComponent", NULL)
  /\ ret = "void"
  /\ mModifiedAbilities = abilities
  /\ mSendAbilityCooldown = FALSE
  /\ mNpcThread = NULL
  /\ mTalkNpcId = 0
  /\ currentThread = NULL
  /\ permissions = NoPermissions
  /\ permissionFile = ""
  /\ hooksFired = 0

\* the transaction guard and the life cycle of one character, under either
\* build, with or without script callbacks and respawn configuration
Init ==
  /\ abilities = {}
  /\ Constructed
  /\ attrBase = [a \in Attributes |-> IF a = ATTR_MAX_HP THEN 2 ELSE 1]
  /\ attrMod = [a \in Attributes |-> IF a = ATTR_MAX_HP THEN 1 ELSE 0]
  /\ ndebug \in BOOLEAN
  /\ mDeathCallback = TRUE
  /\ mDeathAcceptedCallback \in BOOLEAN
  /\ config \in {NoConfig, SomeConfig}

Next ==
  \/ SetTrading
  \/ SetBuySell
  \/ CancelTransaction
  \/ Respawn
  \/ Disconnected
  \/ Died
  \/ SetAction
  \/ ProcessWarps

Spec == Init /\ [][Next]_vars

\* the point economy of one character, loaded with any point balances and
\* any bases of the modifiable attributes within the bounds
InitPoints ==
  /\ abilities = {}
  /\ Constructed
  /\ attrBase \in {[a \in Attributes |-> IF a \in ModifiableAttributes THEN b[a] ELSE 2] : b \in [ModifiableAttributes -> 1..MaxBase]}
  /\ attrMod = [a \in Attributes |-> 0]
  /\ ndebug = FALSE
  /\ mDeathCallback = FALSE
  /\ mDeathAcceptedCallback = FALSE
  /\ config = NoConfig

NextPoints ==
  \/ UseCharacterPoint
  \/ UseCorrectionPoint

SpecPoints == InitPoints /\ [][NextPoints]_vars

\* the per tick synchronisation of abilities, cooldown and points of a
\* character that may die and respawn, loaded with any set of abilities
InitSync ==
  /\ abilities \in SUBSET AbilityIds
  /\ Constructed
  /\ attrBase = [a \in Attributes |-> IF a = ATTR_MAX_HP THEN 2 ELSE 1]
  /\ attrMod = [a \in Attributes |-> 0]
  /\ ndebug = FALSE
  /\ mDeathCallback = TRUE
  /\ mDeathAcceptedCallback = TRUE
  /\ config = NoConfig

NextSync ==
  \/ Update
  \/ AbilityStatusChanged
  \/ AbilityCooldownActivated
  \/ UseCharacterPoint
  \/ UseCorrectionPoint
  \/ Died
  \/ Respawn

SpecSync == InitSync /\ [][NextSync]_vars

\* the NPC dialogue session of a character
InitNpc ==
  /\ abilities = {}
  /\ Constructed
  /\ attrBase = [a \in Attributes |-> IF a = ATTR_MAX_HP THEN 2 ELSE 1]
  /\ attrMod = [a \in Attributes |-> 0]
  /\ ndebug \in BOOLEAN
  /\ mDeathCallback = TRUE
  /\ mDeathAcceptedCallback = TRUE
  /\ config = NoConfig

NextNpc ==
  \/ StartNpcThread
  \/ ResumeNpcThread

SpecNpc == InitNpc /\ [][NextNpc]_vars

\* the permission manager
NextPerm ==
  \/ Initialize
  \/ Reload
  \/ CheckPermission

InitPerm ==
  /\ InitNpc
  /\ ndebug = FALSE
  /\ mAttributePoints = 0
  /\ mCorrectionPoints = 0

SpecPerm == InitPerm /\ [][NextPerm]_vars

\* the attribute dirty set and its flush
NextStatus ==
  \/ ModifiedAllAttributes
  \/ UseCharacterPoint
  \/ UseCorrectionPoint
  \/ SetAttribute
  \/ SendStatus

SpecStatus == InitPoints /\ [][NextStatus]_vars

\* ------------------------------------------------------------------- claims
\* the character's own state: everything but the record of the last call
charVars == <<mTransaction, mTransactionHandler, mConnected, mAttributePoints, mCorrectionPoints, mSendAttributePointsStatus, mModifiedAttributes, action, attrBase, attrMod, removed, warps, pos, aborted, mModifiedAbilities, mSendAbilityCooldown, abilities, mNpcThread, mTalkNpcId, currentThread, hooksFired>>

\* the cast cancelTransaction applies under a tag
KindOf(tag) == IF tag = TRANS_TRADE THEN "Trade" ELSE "BuySell"

\* event a comes strictly before event b in a sequence, and b never comes
\* without an a before it
Before(seq, a, b) ==
  /\ \E i, j \in 1..Len(seq) : i < j /\ seq[i] = a /\ seq[j] = b
  /\ \A j \in 1..Len(seq) : seq[j] = b => \E i \in 1..(j - 1) : seq[i] = a

\* C1: when setTrading(h), h not null, is followed at once by setBuySell(h2),
\* h2 not null, the cancel hook of h fires before h2 is adopted, it fires
\* once, and afterwards getBuySell() is h2 and getTrading() is null.
C1_TradeThenBuySell ==
  [][(call.op = "setTrading" /\ call.arg # NULL /\ call'.op = "setBuySell" /\ call'.arg # NULL)
       => /\ Before(out', <<"cancel", "Trade", call.arg>>, <<"adopt", TRANS_BUYSELL, call'.arg>>)
          /\ Events(out', "cancel") = << <<"cancel", "Trade", call.arg>> >>
          /\ getBuySell(cur)' = call'.arg
          /\ getTrading(cur)' = NULL]_vars

C1_Witness ==
  /\ call = Call("setBuySell", "buysell2")
  /\ out = << <<"cancel", "Trade", "trade1">>, <<"adopt", TRANS_BUYSELL, "buysell2">> >>
  /\ getBuySell(cur) = "buysell2"

\* C2 as stated: the stored tag and the stored handler are consistent: tag
\* None implies the stored handler is null, tag Trade a Trade handler, tag
\* BuySell a BuySell handler.
C2_Original ==
  /\ mTransaction = TRANS_NONE => mTransactionHandler = NULL
  /\ mTransaction = TRANS_TRADE => mTransactionHandler \in TradeHandlers
  /\ mTransaction = TRANS_BUYSELL => mTransactionHandler \in BuySellHandlers

\* C2 as amended: tag Trade implies that the stored handler is a Trade
\* handler (not null), tag BuySell that it is a BuySell handler (not null);
\* under tag None the stored handler is null or the handler of the last
\* transaction, and neither getTrading() nor getBuySell() returns it.
C2_TagMatchesHandler ==
  /\ mTransaction \in {TRANS_NONE, TRANS_TRADE, TRANS_BUYSELL}
  /\ mTransaction = TRANS_TRADE => mTransactionHandler \in TradeHandlers
  /\ mTransaction = TRANS_BUYSELL => mTransactionHandler \in BuySellHandlers
  /\ mTransaction = TRANS_NONE => /\ mTransactionHandler \in TradeHandlers \cup BuySellHandlers \cup {NULL}
                                  /\ getTrading(cur) = NULL
                                  /\ getBuySell(cur) = NULL

C2_Witness ==
  /\ call.op = "cancelTransaction"
  /\ mTransaction = TRANS_NONE
  /\ mTransactionHandler = "trade1"

\* C3 as stated: disconnected while a trade is active fires the cancel hook
\* of that trade exactly once and leaves no active transaction, whether the
\* character is dead or alive.
C3_DisconnectCancelsTrade ==
  [][(call'.op = "disconnected" /\ mTransaction = TRANS_TRADE)
       => /\ Events(out', "cancel") = << <<"cancel", "Trade", mTransactionHandler>> >>
          /\ mTransaction' = TRANS_NONE]_vars

\* C4: cancelTransaction() under tag Trade or BuySell fires cancel() exactly
\* once, on the stored handler through the cast of that tag, and leaves tag
\* None; under tag None it fires nothing and changes nothing.
C4_CancelTransaction ==
  [][call'.op = "cancelTransaction"
       => IF mTransaction # TRANS_NONE
          THEN /\ Events(out', "cancel") = << <<"cancel", KindOf(mTransaction), mTransactionHandler>> >>
               /\ mTransaction' = TRANS_NONE
          ELSE /\ out' = << >>
               /\ UNCHANGED charVars]_vars

C4_Witness ==
  /\ call.op = "cancelTransaction"
  /\ out = << <<"cancel", "BuySell", "buysell1">> >>
  /\ mTransaction = TRANS_NONE

\* C5: useCharacterPoint on an attribute that is not directly modifiable
\* returns the invalid-attribute code whatever the point balance, and leaves
\* the point balance, the correction points and every base as they were.
C5_InvalidAttribute ==
  [][(call'.op = "useCharacterPoint" /\ call'.arg \notin ModifiableAttributes)
       => /\ ret' = ATTRIBMOD_INVALID_ATTRIBUTE
          /\ UNCHANGED <<mAttributePoints, mCorrectionPoints, attrBase>>]_vars

C5_Witness ==
  /\ call = Call("useCharacterPoint", ATTR_HP)
  /\ ret = ATTRIBMOD_INVALID_ATTRIBUTE
  /\ mAttributePoints = MaxPoints

\* C6 as stated: useCorrectionPoint on a modifiable attribute whose base is
\* exactly 1 returns Denied and leaves both counters unchanged, whatever the
\* correction-point balance, zero included.
C6_Original ==
  [][(call'.op = "useCorrectionPoint" /\ call'.arg \in ModifiableAttributes /\ attrBase[call'.arg] = 1)
       => /\ ret' = ATTRIBMOD_DENIED
          /\ UNCHANGED <<mAttributePoints, mCorrectionPoints>>]_vars

\* C6 as amended: with base exactly 1 it returns Denied when the correction
\* point balance is not zero and NoPointsLeft when it is zero; in both cases
\* both counters are unchanged.
C6_DeniedAtOne ==
  [][(call'.op = "useCorrectionPoint" /\ call'.arg \in ModifiableAttributes /\ attrBase[call'.arg] = 1)
       => /\ ret' = IF mCorrectionPoints = 0 THEN ATTRIBMOD_NO_POINTS_LEFT ELSE ATTRIBMOD_DENIED
          /\ UNCHANGED <<mAttributePoints, mCorrectionPoints>>]_vars

C6_Witness ==
  /\ call.op = "useCorrectionPoint"
  /\ ret = ATTRIBMOD_DENIED
  /\ attrBase[call.arg] = 1
  /\ mCorrectionPoints > 0

\* C7: useCharacterPoint on a modifiable attribute: with a zero balance it
\* returns NoPointsLeft and changes no counter and no base; otherwise it
\* returns Ok, takes exactly one point, adds exactly one to the base of that
\* attribute alone and requests the derived attributes of that attribute.
C7_UseCharacterPoint ==
  [][(call'.op = "useCharacterPoint" /\ call'.arg \in ModifiableAttributes)
       => IF mAttributePoints = 0
          THEN /\ ret' = ATTRIBMOD_NO_POINTS_LEFT
               /\ UNCHANGED <<mAttributePoints, mCorrectionPoints, attrBase>>
          ELSE /\ ret' = ATTRIBMOD_OK
               /\ mAttributePoints' = mAttributePoints - 1
               /\ mCorrectionPoints' = mCorrectionPoints
               /\ attrBase' = [attrBase EXCEPT ![call'.arg] = @ + 1]
               /\ Events(out', "updateDerivedAttributes") = << <<"updateDerivedAttributes", call'.arg>> >>]_vars

C7_Witness ==
  /\ call.op = "useCharacterPoint"
  /\ ret = ATTRIBMOD_OK
  /\ mAttributePoints = 0
  /\ attrBase[call.arg] = MaxBase + 1

\* C8: useCorrectionPoint on a modifiable attribute with correction points
\* above 0 and base above 1 returns Ok, takes exactly one correction point,
\* refunds exactly one spendable point and lowers the base of that attribute
\* alone by exactly one; whenever it returns InvalidAttribute, NoPointsLeft or
\* Denied, both counters and every base are unchanged.
C8_UseCorrectionPoint ==
  [][call'.op = "useCorrectionPoint"
       => /\ (call'.arg \in ModifiableAttributes /\ mCorrectionPoints > 0 /\ attrBase[call'.arg] > 1)
               => /\ ret' = ATTRIBMOD_OK
                  /\ mCorrectionPoints' = mCorrectionPoints - 1
                  /\ mAttributePoints' = mAttributePoints + 1
                  /\ attrBase' = [attrBase EXCEPT ![call'.arg] = @ - 1]
          /\ ret' \in {ATTRIBMOD_OK, ATTRIBMOD_INVALID_ATTRIBUTE, ATTRIBMOD_NO_POINTS_LEFT, ATTRIBMOD_DENIED}
          /\ ret' # ATTRIBMOD_OK => UNCHANGED <<mAttributePoints, mCorrectionPoints, attrBase>>]_vars

C8_Witness ==
  /\ call.op = "useCorrectionPoint"
  /\ ret = ATTRIBMOD_OK
  /\ mAttributePoints = MaxPoints + 1
  /\ mCorrectionPoints = 0

\* C9: from integer bases of at least 1, the base of every directly
\* modifiable attribute stays at least 1 after any sequence of
\* useCharacterPoint and useCorrectionPoint.
C9_MinimumBase == \A a \in ModifiableAttributes : attrBase[a] >= 1

C9_Witness ==
  /\ call.op = "useCorrectionPoint"
  /\ ret = ATTRIBMOD_OK
  /\ attrBase[call.arg] = 1
  /\ mCorrectionPoints > 0

\* C10: respawn on a character that is not dead changes neither the action
\* state, nor any attribute, nor the position, enqueues no warp and runs no
\* script callback.
C10_RespawnAlive ==
  [][(call'.op = "respawn" /\ action # DEAD)
       => /\ UNCHANGED <<action, attrBase, attrMod, pos, warps>>
          /\ Events(out', "enqueueWarp") = << >>
          /\ Events(out', "execute") = << >>]_vars

C10_Witness ==
  /\ call.op = "respawn"
  /\ action = SIT
  /\ Events(out, "LOG_WARN") # << >>

\* C11: respawn on a dead character first sets the action state to STAND;
\* with a death-accepted callback registered it then runs that callback once
\* and neither resets the hit points nor enqueues a warp; with none registered
\* it sets HP to the modified max-HP and enqueues one warp to the configured
\* respawn point, which is map 1, x 1024, y 1024 without a configuration.
C11_RespawnDead ==
  [][(call'.op = "respawn" /\ action = DEAD)
       => /\ action' = STAND
          /\ out' # << >>
          /\ out'[1] = <<"setAction", STAND>>
          /\ IF mDeathAcceptedCallback
             THEN /\ Events(out', "execute") = << <<"execute", "death_accepted">> >>
                  /\ Events(out', "enqueueWarp") = << >>
                  /\ UNCHANGED <<attrBase, warps>>
             ELSE /\ Events(out', "execute") = << >>
                  /\ attrBase' = [attrBase EXCEPT ![ATTR_HP] = attrBase[ATTR_MAX_HP] + attrMod[ATTR_MAX_HP]]
                  /\ Len(Events(out', "enqueueWarp")) = 1
                  /\ warps' = Append(warps, IF config.set THEN [map |-> config.map, x |-> config.x, y |-> config.y] ELSE [map |-> 1, x |-> 1024, y |-> 1024])]_vars

C11_Witness ==
  /\ call.op = "respawn"
  /\ ~mDeathAcceptedCallback
  /\ ~config.set
  /\ action = STAND
  /\ attrMod[ATTR_MAX_HP] = 1
  /\ attrBase[ATTR_HP] = attrBase[ATTR_MAX_HP] + 1
  /\ warps = << [map |-> 1, x |-> 1024, y |-> 1024] >>

\* C15: disconnected marks the character as not connected; a dead being is
\* respawned, so that the action state is not DEAD afterwards, and no removal
\* is requested; a living being is removed from the world and not respawned;
\* in both cases signal_disconnected is emitted exactly once, as the last step.
C15_Disconnected ==
  [][call'.op = "disconnected"
       => /\ mConnected' = FALSE
          /\ action' # DEAD
          /\ Events(out', "signal_disconnected") = << <<"signal_disconnected">> >>
          /\ out'[Len(out')] = <<"signal_disconnected">>
          /\ IF action = DEAD
             THEN /\ out'[1] = <<"setAction", STAND>>
                  /\ action' = STAND
                  /\ Events(out', "remove") = << >>
                  /\ removed' = FALSE
             ELSE /\ Events(out', "remove") = << <<"remove">> >>
                  /\ removed' = TRUE
                  /\ Events(out', "setAction") = << >>
                  /\ Events(out', "execute") = << >>
                  /\ Events(out', "enqueueWarp") = << >>
                  /\ UNCHANGED <<action, attrBase, warps>>]_vars

C15_Witness ==
  /\ call.op = "disconnected"
  /\ ~mConnected
  /\ ~removed
  /\ action = STAND
  /\ out[1] = <<"setAction", STAND>>

\* the three flags of pending synchronisation kept by the character
Pending == <<mModifiedAbilities, mSendAbilityCooldown, mSendAttributePointsStatus>>

\* C12: update on a dead character sends no ability-status, cooldown or
\* points-status message and leaves the ability dirty set and the two flags
\* unchanged; no other operation drops a pending notification, so what was
\* notified while dead is still pending at the first update of the character
\* once it is alive again.
C12_UpdateDead ==
  [][/\ (call'.op = "update" /\ action = DEAD)
          => /\ Events(out', "sendTo") = << >>
             /\ UNCHANGED Pending
     /\ call'.op # "update"
          => /\ mModifiedAbilities \subseteq mModifiedAbilities'
             /\ mSendAbilityCooldown => mSendAbilityCooldown'
             /\ mSendAttributePointsStatus => mSendAttributePointsStatus']_vars

C12_Witness ==
  /\ call.op = "update"
  /\ action = DEAD
  /\ out = << >>
  /\ mModifiedAbilities = AbilityIds
  /\ mSendAbilityCooldown
  /\ mSendAttributePointsStatus

\* C13: one update of a living character sends at most one message per
\* category, a category's message exactly when its dirty set is non-empty or
\* its flag is set, the ability message holding one id and one recharge value
\* per dirty ability the character has; afterwards the dirty set is empty and
\* both flags are cleared, and an update that directly follows an update
\* sends nothing.
C13_UpdateAlive ==
  [][(call'.op = "update" /\ action # DEAD)
       => /\ Len(Sent(out', "GPMSG_ABILITY_STATUS")) = (IF mModifiedAbilities # {} THEN 1 ELSE 0)
          /\ Len(Sent(out', "GPMSG_ABILITY_COOLDOWN")) = (IF mSendAbilityCooldown THEN 1 ELSE 0)
          /\ Len(Sent(out', "GPMSG_ATTRIBUTE_POINTS_STATUS")) = (IF mSendAttributePointsStatus THEN 1 ELSE 0)
          /\ Len(out') = Len(Sent(out', "GPMSG_ABILITY_STATUS")) + Len(Sent(out', "GPMSG_ABILITY_COOLDOWN")) + Len(Sent(out', "GPMSG_ATTRIBUTE_POINTS_STATUS"))
          /\ \A i \in 1..Len(Sent(out', "GPMSG_ABILITY_STATUS")) :
               LET f == Sent(out', "GPMSG_ABILITY_STATUS")[i][2].fields
               IN /\ Len(f) = 2 * Cardinality(mModifiedAbilities \cap abilities)
                  /\ {f[k][2] : k \in {j \in 1..Len(f) : j % 2 = 1}} = mModifiedAbilities \cap abilities
          /\ \A i \in 1..Len(Sent(out', "GPMSG_ATTRIBUTE_POINTS_STATUS")) :
               Sent(out', "GPMSG_ATTRIBUTE_POINTS_STATUS")[i][2].fields = << <<2, mAttributePoints>>, <<2, mCorrectionPoints>> >>
          /\ mModifiedAbilities' = {}
          /\ ~mSendAbilityCooldown'
          /\ ~mSendAttributePointsStatus'
          /\ call.op = "update" => out' = << >>]_vars

C13_Witness ==
  /\ call.op = "update"
  /\ action # DEAD
  /\ Len(out) = 3
  /\ abilities = AbilityIds
  /\ Len(Sent(out, "GPMSG_ABILITY_STATUS")[1][2].fields) = 4
  /\ mModifiedAbilities = {}
  /\ ~mSendAbilityCooldown
  /\ ~mSendAttributePointsStatus

\* the attribute ids for which attributeChanged ran during a call
Touched(seq) == {Events(seq, "updateAttributes")[i][2] : i \in 1..Len(Events(seq, "updateAttributes"))}

\* C14: between two flushes the attribute dirty set is the set of the ids
\* touched by the attribute changes (all of them after modifiedAllAttributes);
\* sendStatus on a non-empty dirty set
\* sends one attribute-change message that lists every dirty id once, in
\* ascending order, with its current base and modified value (in 1/256
\* units), sends nothing when the dirty set is empty, and leaves the dirty set
\* empty.
C14_SendStatus ==
  [][/\ call'.op \notin {"sendStatus", "modifiedAllAttributes"}
          => mModifiedAttributes' = mModifiedAttributes \cup Touched(out')
     /\ call'.op = "modifiedAllAttributes"
          => /\ mModifiedAttributes' = DOMAIN attrBase
             /\ UNCHANGED <<attrBase, attrMod>>
     /\ call'.op = "setAttribute" => call'.arg \in mModifiedAttributes'
     /\ call'.op = "sendStatus"
          => /\ mModifiedAttributes' = {}
             /\ UNCHANGED <<attrBase, attrMod>>
             /\ IF mModifiedAttributes = {} THEN out' = << >>
                ELSE /\ Len(out') = 1
                     /\ out'[1][1] = "sendTo"
                     /\ out'[1][2].id = "GPMSG_PLAYER_ATTRIBUTE_CHANGE"
                     /\ LET f == out'[1][2].fields
                            n == Cardinality(mModifiedAttributes)
                        IN /\ Len(f) = 3 * n
                           /\ {f[3 * k - 2][2] : k \in 1..n} = mModifiedAttributes
                           /\ \A k \in 1..n :
                                /\ f[3 * k - 2][1] = 2
                                /\ f[3 * k - 1] = <<4, attrBase[f[3 * k - 2][2]] * 256>>
                                /\ f[3 * k] = <<4, (attrBase[f[3 * k - 2][2]] + attrMod[f[3 * k - 2][2]]) * 256>>
                           /\ \A k \in 1..(n - 1) : f[3 * k - 2][2] < f[3 * k + 1][2]]_vars

C14_Witness ==
  /\ call.op = "sendStatus"
  /\ mModifiedAttributes = {}
  /\ Len(out) = 1
  /\ Len(out[1][2].fields) = 6
  /\ out[1][2].fields[1][2] < out[1][2].fields[4][2]

\* C20: startNpcThread destroys the thread stored before (if any), and only
\* that one, before it stores and resumes the new thread; a resume that
\* reports completion sends exactly one GPMSG_NPC_CLOSE naming the stored NPC
\* id and clears the stored thread and id; a resume that reports suspension
\* sends nothing and keeps thread and id stored. The thread resumed is the
\* stored one, the only thread bound to the character.
C20_NpcThread ==
  [][(call'.op \in {"startNpcThread", "resumeNpcThread"})
       => /\ Events(out', "delete") = (IF call'.op = "startNpcThread" /\ mNpcThread # NULL THEN << <<"delete", mNpcThread>> >> ELSE << >>)
          /\ Events(out', "resume") = << <<"resume", call'.arg.thread>> >>
          /\ call'.op = "resumeNpcThread" => call'.arg.thread = mNpcThread /\ call'.arg.npcId = mTalkNpcId
          /\ out'[Len(out')][1] = (IF call'.arg.done THEN "sendTo" ELSE "resume")
          /\ IF call'.arg.done
             THEN /\ Events(out', "sendTo") = << <<"sendTo", [id |-> "GPMSG_NPC_CLOSE", fields |-> << <<2, call'.arg.npcId>> >>]>> >>
                  /\ mNpcThread' = NULL
                  /\ mTalkNpcId' = 0
             ELSE /\ Events(out', "sendTo") = << >>
                  /\ mNpcThread' = call'.arg.thread
                  /\ mTalkNpcId' = call'.arg.npcId]_vars

C20_Witness ==
  /\ call.op = "startNpcThread"
  /\ call.arg.done
  /\ Len(out) = 3
  /\ out[1][1] = "delete"
  /\ out[1][2] # call.arg.thread
  /\ mNpcThread = NULL
  /\ mTalkNpcId = 0

\* the positions of the bits set in a mask
Bits(x) == {i \in 0..15 : (x \div (2 ^ i)) % 2 = 1}

\* a source from which nothing is loaded: no data, no document, or a root
\* element other than "permissions"
Failed(content) == content.kind # "document" \/ content.root # "permissions"

\* the level bits a source declares for a permission name: bit L-1 for every
\* class element of level L in 1..8 that has an allow element of that name
Declared(content, name) ==
  {content.children[i].level - 1 :
     i \in {j \in 1..Len(content.children) :
              /\ content.children[j].name = "class"
              /\ content.children[j].level \in 1..8
              /\ \E k \in 1..Len(content.children[j].children) :
                   content.children[j].children[k] = PerNode("allow", name)}}

\* C16: checkPermission returns PMR_UNKNOWN exactly for a name without an
\* entry in the table; for a name with an entry it returns PMR_ALLOWED when
\* the account level and the entry's mask have a bit in common and PMR_DENIED
\* otherwise; the table is left as it was.
C16_CheckPermission ==
  [][call'.op = "checkPermission"
       => /\ ret' \in {PMR_ALLOWED, PMR_DENIED, PMR_UNKNOWN}
          /\ ret' = PMR_UNKNOWN <=> call'.arg.permission \notin DOMAIN permissions
          /\ call'.arg.permission \in DOMAIN permissions
               => (ret' = PMR_ALLOWED <=> Bits(call'.arg.level) \cap Bits(permissions[call'.arg.permission]) # {})
          /\ UNCHANGED <<permissions, permissionFile>>]_vars

C16_Witness ==
  /\ call.op = "checkPermission"
  /\ ret = PMR_UNKNOWN
  /\ call.arg.permission = "c"
  /\ DOMAIN permissions = {"a", "b"}

\* C17: an initialize or reload whose source is missing, unparsable or has a
\* root element other than "permissions" leaves the table as it was.
C17_FailedReload ==
  [][(call'.op \in {"initialize", "reload"} /\ Failed(call'.arg.content))
       => /\ permissions' = permissions
          /\ Events(out', "LOG_ERROR") # << >>]_vars

C17_Witness ==
  /\ call.op = "reload"
  /\ call.arg.content.kind = "document"
  /\ call.arg.content.root = "accounts"
  /\ call.arg.content.children # << >>
  /\ call.arg.content.children[1].name = "class"
  /\ call.arg.content.children[1].level = 2
  /\ DOMAIN permissions = {"a"}
  /\ permissions["a"] = 1

\* the names a class element allows
Allowed(node) == {n \in PermissionNames : \E k \in 1..Len(node.children) : node.children[k] = PerNode("allow", n)}

\* C18 as stated: during a load, a class element whose level is outside 1..8
\* adds no bit to the table, and every class element that follows it in the
\* same source is still processed: a class of level L in 1..8 contributes
\* exactly bit L-1 to each permission it allows.
C18_IllegalLevel ==
  [][(call'.op \in {"initialize", "reload"} /\ ~Failed(call'.arg.content))
       => /\ \A n \in DOMAIN permissions' :
               Bits(permissions'[n]) \subseteq (IF n \in DOMAIN permissions THEN Bits(permissions[n]) ELSE {}) \cup Declared(call'.arg.content, n)
          /\ \A i, j \in 1..Len(call'.arg.content.children) :
               (/\ i < j
                /\ call'.arg.content.children[i].name = "class"
                /\ call'.arg.content.children[i].level \notin 1..8
                /\ call'.arg.content.children[j].name = "class"
                /\ call'.arg.content.children[j].level \in 1..8)
                 => \A n \in Allowed(call'.arg.content.children[j]) :
                      /\ n \in DOMAIN permissions'
                      /\ (call'.arg.content.children[j].level - 1) \in Bits(permissions'[n])]_vars

\* C19: after a successful initialize or reload the table is the table of
\* that source alone: it holds exactly the names the source allows, each
\* with the union of the level bits the source declares for it.
C19_RebuiltWholesale ==
  [][(call'.op \in {"initialize", "reload"} /\ ~Failed(call'.arg.content) /\ ~aborted')
       => /\ DOMAIN permissions' = {n \in PermissionNames : Declared(call'.arg.content, n) # {}}
          /\ \A n \in DOMAIN permissions' : Bits(permissions'[n]) = Declared(call'.arg.content, n)]_vars

\* C21: in any sequence of setTrading, setBuySell and cancelTransaction
\* calls, the hooks calling cancelTransaction, setTrading(null) or
\* setBuySell(null) back included, the cancel() hook is dispatched at most
\* once on a handler after its adoption: the tag is None when the hook runs,
\* so a call made from inside the hook finds nothing to cancel.
C21_OneCancelPerAdoption ==
  /\ hooksFired \in {0, 1}
  /\ Len(Events(out, "cancel")) <= 1
  /\ \A i \in 1..Len(out) : out[i][1] = "reenter" => \A j \in (i + 1)..Len(out) : out[j][1] # "cancel"

C21_Witness ==
  /\ call = Call("cancelTransaction", NULL)
  /\ out = << <<"cancel", "Trade", "trade1">>, <<"reenter", "cancelTransaction">> >>
  /\ hooksFired = 1
  /\ mTransaction = TRANS_NONE

RECURSIVE SumBases(_, _)
\* the sum of the bases of a set of attributes
SumBases(base, S) ==
  IF S = {} THEN 0
  ELSE LET a == CHOOSE x \in S : TRUE
       IN base[a] + SumBases(base, S \ {a})

\* the points of a character: those still to spend and those spent on the
\* directly modifiable attributes
Budget == mAttributePoints + SumBases(attrBase, ModifiableAttributes)

\* C22: over any sequence of useCharacterPoint and useCorrectionPoint from
\* non-negative counters, neither counter becomes negative, the correction
\* points never increase, and the sum of the spendable points and the bases
\* of the directly modifiable attributes stays what it was.
C22_PointBudget ==
  [][call'.op \in {"useCharacterPoint", "useCorrectionPoint"}
       => /\ mAttributePoints' >= 0
          /\ mCorrectionPoints' >= 0
          /\ mCorrectionPoints' <= mCorrectionPoints
          /\ Budget' = Budget
          /\ \A a \in Attributes \ ModifiableAttributes : attrBase'[a] = attrBase[a]]_vars

C22_Witness ==
  /\ call.op = "useCharacterPoint"
  /\ ret = ATTRIBMOD_OK
  /\ mAttributePoints = MaxPoints
  /\ mCorrectionPoints = 0
  /\ Budget = MaxPoints + MaxBase + MaxBase

====
